---- MODULE Spec2Model ----
(***************************************************************************)
(* Payment reconciliation of the boost-order bot (src/adsbot.md):          *)
(* paymentStep creates an order with a one-time wallet, finalStep          *)
(* ("start_boosting") looks at the most recent incoming transaction and    *)
(* forwards or refunds the wallet's balance.                               *)
(*                                                                         *)
(* Amounts are fixed-point numbers of 10^-9 SUI (one unit = one MIST), so  *)
(* amountInSui = Number(mist) / Number(MIST_PER_SUI) is the same integer   *)
(* read at scale MIST_PER_SUI, and the program's SUI constants (PACKAGES,  *)
(* MINIMUM_BALANCE_FOR_GAS) are written at that scale.  Time is in ms.     *)
(***************************************************************************)
EXTENDS Integers, Sequences, FiniteSets, Bags, TLC

\* ---------------------------------------------------------------- bounds
\* number of finalStep invocations that may be running at once
NumChecks == 2
\* number of clock steps
MaxTicks == 2
\* number of transactions sent to the payment address
MaxTx == 1
\* largest number of ms the clock advances between two consecutive reads
MaxSkew == 1
\* number of orders a user creates by going through the wizard again
MaxOrders == 2
\* number of message handler invocations that may be running at once
NumEdits == 1
\* number of orders the order editor is used on
MaxEdited == 1

\* ------------------------------------------------------ program constants
MIST_PER_SUI == 1000000000
ORDER_EXPIRATION_IN_MS == 10 * 60 * 1000
\* 0.0035 SUI
MINIMUM_BALANCE_FOR_GAS == 35 * (MIST_PER_SUI \div 10000)
MS_PER_HOUR == 60 * 60 * 1000
MASTER_WALLET == "master"

\* duration (hours) and price of each package
PACKAGES ==
  { [duration |-> 4,  price |-> MIST_PER_SUI \div 10],
    [duration |-> 8,  price |-> 2 * (MIST_PER_SUI \div 10)],
    [duration |-> 12, price |-> 4 * (MIST_PER_SUI \div 10)],
    [duration |-> 24, price |-> 8 * (MIST_PER_SUI \div 10)],
    [duration |-> 48, price |-> MIST_PER_SUI] }

\* PRICES with the price of the smallest package for every duration
PRICESFlat == [d \in {p.duration : p \in PACKAGES} |-> MIST_PER_SUI \div 10]

\* PRICES[duration] = price
PRICES == [d \in {p.duration : p \in PACKAGES} |->
             (CHOOSE p \in PACKAGES : p.duration = d).price]

\* ------------------------------------------------------------ environment
\* the clock advances by the payment window per step, so that a check runs
\* at elapsed = 0, at elapsed = window and at elapsed > window
TickMs == ORDER_EXPIRATION_IN_MS
\* the payers; finalStep never compares two senders, so it is enough that
\* the i-th transaction comes from the i-th payer
Payers == <<"alice", "bob", "carol", "dave">>
SUI_COIN == "0x2::sui::SUI"
OTHER_COIN == "0xabc::usdc::USDC"
\* amounts (MIST) a payer may send: 0.0035 SUI (the gas minimum) and 0.4 SUI
Amounts == {MINIMUM_BALANCE_FOR_GAS, 4 * (MIST_PER_SUI \div 10)}
\* the package buttons pressed: 0.4 SUI is above the price of 4 hours, equal
\* to the price of 12 hours and below the price of 24 hours
Durations == {4, 12, 24}
\* a nullable value is the empty set or a singleton
None == {}
Some(v) == {v}
The(s) == CHOOSE v \in s : TRUE

VARIABLES
  now,        \* Date.now()
  orders,     \* the BoostOrder table: paymentAddress -> row
  wallet,     \* ctx.scene.session.wallet
  txs,        \* transactions to the payment address, most recent first
  balance,    \* SUI balance (MIST) of the payment address
  chk,        \* the running finalStep invocations (a bag): position, locals
  last,       \* the finalStep invocation that returned in the last step
  sweeps,     \* log of the sendSui calls: destination, outcome, amount
  boostOrder,   \* the BoostOrder table as the order editor reads it: id -> row
  pendingEdits, \* field-edit.ts: the entries of the Map userId -> edit
  msg,          \* the running handleFieldEditMessage invocations (a bag)
  session,      \* ctx.session of the chat with the whale bot
  botGroup,     \* the BotGroup table of the whale bot: groupId -> row
  reply         \* what the handler that ran in the last step answered

\* the variables of the message and button handlers outside the payment
uiVars == <<boostOrder, pendingEdits, msg, session, botGroup, reply>>

\* the variables of the payment
payVars == <<now, orders, wallet, txs, balance, chk, last, sweeps>>

vars == <<now, orders, wallet, txs, balance, chk, last, sweeps,
          boostOrder, pendingEdits, msg, session, botGroup, reply>>

\* ------------------------------------------------------------------ store
\* prisma.boostOrder.update({where: {paymentAddress}, data}): the fields of
\* data replace those of the row, unconditionally.
updateBoostOrder(table, paymentAddress, data) ==
  [table EXCEPT ![paymentAddress] =
     [f \in DOMAIN @ |-> IF f \in DOMAIN data THEN data[f] ELSE @[f]]]

\* prisma.boostOrder.findUnique({where: {paymentAddress}})
getBoostOrderByPaymentAddress(table, paymentAddress) ==
  IF paymentAddress \in DOMAIN table THEN Some(table[paymentAddress]) ELSE None

\* the keypairs new Ed25519Keypair() draws, in the order of the draws: a
\* random key is one that was not drawn before
Keypairs ==
  << [address |-> "wallet1", privateKey |-> "key1"],
     [address |-> "wallet2", privateKey |-> "key2"],
     [address |-> "wallet3", privateKey |-> "key3"],
     [address |-> "wallet4", privateKey |-> "key4"] >>

\* createWallet, called for the n-th time: a fresh keypair
createWallet(n) == Keypairs[n]

\* createBoostOrder that stores the address of the first wallet in every row
createBoostOrderFirstAddress(table, duration, price, w, createdAt) ==
  [a \in DOMAIN table \cup {w.address} |->
     IF a \in DOMAIN table THEN table[a]
     ELSE [ id                     |-> Cardinality(DOMAIN table) + 1,
            boostDurationHours     |-> duration,
            priceSui               |-> price,
            paymentAddress         |-> Keypairs[1].address,
            paymentPrivateKey      |-> w.privateKey,
            paymentStatus          |-> "PENDING",
            paymentTransactionHash |-> None,
            refundTransactionHash  |-> None,
            refundAddress          |-> None,
            boostStartedAt         |-> None,
            boostEndsAt            |-> None,
            createdAt              |-> createdAt ]]

\* prisma.boostOrder.create with the data of paymentStep and the defaults of
\* the BoostOrder model (id is @default(cuid()): one that no row has);
\* paymentAddress is @unique, so a second row of the same address is refused
createBoostOrder(table, duration, price, w, createdAt) ==
  [a \in DOMAIN table \cup {w.address} |->
     IF a \in DOMAIN table THEN table[a]
     ELSE [ id                     |-> Cardinality(DOMAIN table) + 1,
            boostDurationHours     |-> duration,
            priceSui               |-> price,
            paymentAddress         |-> w.address,
            paymentPrivateKey      |-> w.privateKey,
            paymentStatus          |-> "PENDING",
            paymentTransactionHash |-> None,
            refundTransactionHash  |-> None,
            refundAddress          |-> None,
            boostStartedAt         |-> None,
            boostEndsAt            |-> None,
            createdAt              |-> createdAt ]]

\* ----------------------------------------------------------------- ledger
\* the balance change of a transaction that getLastIncomingTx accepts:
\* owned by the recipient, of coin type SUI and strictly positive
IsRecipientBalanceChange(t) ==
  t.coinType = SUI_COIN /\ t.amount > 0

\* getLastIncomingTx that reports the sum of the transactions as the
\* amount of the most recent one
getLastIncomingTxTotal(transactions, queryOk) ==
  IF ~queryOk THEN None
  ELSE IF Len(transactions) = 0 THEN None
  ELSE LET mostRecentTx == transactions[1]
           total == IF Len(transactions) = 1 THEN mostRecentTx.amount
                    ELSE mostRecentTx.amount + transactions[2].amount
       IN
       IF ~IsRecipientBalanceChange(mostRecentTx) THEN None
       ELSE Some([ sender          |-> mostRecentTx.sender,
                   amountInSui     |-> total,
                   transactionHash |-> mostRecentTx.digest ])

\* getLastIncomingTx without the catch: the answer does not depend on the
\* failure of the query
getLastIncomingTxNoCatch(transactions, queryOk) ==
  IF Len(transactions) = 0 THEN None
  ELSE LET mostRecentTx == transactions[1] IN
       IF ~IsRecipientBalanceChange(mostRecentTx) THEN None
       ELSE Some([ sender          |-> mostRecentTx.sender,
                   amountInSui     |-> mostRecentTx.amount,
                   transactionHash |-> mostRecentTx.digest ])

\* getLastIncomingTx: only transactions[0] is looked at; a query that throws
\* is caught and gives null
getLastIncomingTx(transactions, queryOk) ==
  IF ~queryOk THEN None
  ELSE IF Len(transactions) = 0 THEN None
  ELSE LET mostRecentTx == transactions[1] IN
       IF ~IsRecipientBalanceChange(mostRecentTx) THEN None
       ELSE Some([ sender          |-> mostRecentTx.sender,
                   amountInSui     |-> mostRecentTx.amount,
                   transactionHash |-> mostRecentTx.digest ])

\* the result of sendSui: success with the digest, or failure
sendSuiResult(ok, digest, recipientAddress) ==
  IF ok THEN [success |-> TRUE, transactionHash |-> Some(digest),
              to |-> recipientAddress]
  ELSE [success |-> FALSE, transactionHash |-> None, to |-> recipientAddress]

\* sendSui that moves no more than the price of the order
sendSuiPriceOnly(recipientAddress, ok) ==
  LET price == orders[wallet].priceSui
      sent  == IF balance < price THEN balance ELSE price
  IN /\ ok => balance > 0
     /\ balance' = IF ok THEN balance - sent ELSE balance
     /\ sweeps' = Append(sweeps, [to |-> recipientAddress, success |-> ok,
                                  amount |-> IF ok THEN sent ELSE 0])

\* sendSui: transferObjects([tx.gas], recipient) moves the whole SUI balance
\* of the key's address; it cannot succeed on an address that holds nothing
sendSui(recipientAddress, ok) ==
  /\ ok => balance > 0
  /\ balance' = IF ok THEN 0 ELSE balance
  /\ sweeps' = Append(sweeps, [to |-> recipientAddress, success |-> ok,
                               amount |-> IF ok THEN balance ELSE 0])

\* the digest of the next transaction sent from the payment address
NextSweepDigest == 100 + Len(sweeps)

\* ------------------------------------------------------------------- Init
\* an invocation of finalStep: its position, its local variables (order,
\* transaction, timeSinceCreation, tx), what it has done so far (writes,
\* did) and, once it has returned, its answer and the status it left
IdleCheck ==
  [ pc |-> "idle", order |-> None, transaction |-> None, queryFailed |-> FALSE,
    timeSinceCreation |-> 0, expired |-> FALSE, tx |-> None, writes |-> 0,
    did |-> {}, result |-> "none", left |-> "none" ]

\* session({defaultSession}): the session of a chat that has none yet
defaultSession == [selectedGroupId |-> None, pendingEdits |-> {}]

\* no handler answered in the step
NoReply ==
  [ handler |-> "none", userId |-> "none", outcome |-> "none", orderId |-> 0,
    field |-> "none", value |-> None ]

Init ==
  /\ now = 0
  /\ orders = [a \in {} |-> 0]
  /\ wallet = "none"
  /\ txs = <<>>
  /\ balance = 0
  /\ chk = EmptyBag
  /\ last = IdleCheck
  /\ sweeps = <<>>
  /\ boostOrder = <<>>
  /\ pendingEdits = {}
  /\ msg = EmptyBag
  /\ session = defaultSession
  /\ botGroup = [g \in {} |-> 0]
  /\ reply = NoReply

\* ------------------------------------------------------------ environment
\* the clock advances; only the time since the creation of the order is
\* read, so the steps are counted from there
Tick ==
  /\ wallet # "none"
  /\ now < MaxTicks * TickMs
  /\ now' = now + TickMs
  /\ last' = IdleCheck
  /\ UNCHANGED <<orders, wallet, txs, balance, chk, sweeps>>
  /\ UNCHANGED uiVars

\* a payer sends a transaction to the payment address: SUI, or another
\* coin; at most n transactions are sent
DepositUpTo(n) ==
  /\ wallet # "none"
  /\ Len(txs) < n
  /\ \E c \in {SUI_COIN, OTHER_COIN} :
       \E a \in (IF c = SUI_COIN THEN Amounts ELSE {1}) :
         /\ txs' = <<[sender |-> Payers[Len(txs) + 1], coinType |-> c,
                      amount |-> a, digest |-> Len(txs) + 1]>> \o txs
         /\ balance' = IF c = SUI_COIN THEN balance + a ELSE balance
  /\ last' = IdleCheck
  /\ UNCHANGED <<now, orders, wallet, chk, sweeps>>
  /\ UNCHANGED uiVars

Deposit == DepositUpTo(MaxTx)

\* ------------------------------------------------------------ paymentStep
\* the package button "<duration>h": create the wallet and the order
paymentStep ==
  /\ wallet = "none"
  /\ \E duration \in Durations :
       LET price == PRICES[duration]
           w     == createWallet(Cardinality(DOMAIN orders) + 1)
       IN /\ wallet' = w.address
          /\ orders' = createBoostOrder(orders, duration, price, w, now)
  /\ last' = IdleCheck
  /\ UNCHANGED <<now, txs, balance, chk, sweeps>>
  /\ UNCHANGED uiVars

\* -------------------------------------------------------------- finalStep
\* the invocation c of finalStep goes on as d, with the table as written by
\* this step: an invocation that returns leaves the bag and is last in the
\* state the step leads to (last is idle after every other step)
Continue(c, d, table) ==
  IF d.pc = "done"
    THEN /\ chk' = chk (-) SetToBag({c})
         /\ last' = [d EXCEPT !.left = table[wallet].paymentStatus]
    ELSE /\ chk' = (chk (-) SetToBag({c})) (+) SetToBag({d})
         /\ last' = IdleCheck

\* finalStepLoad that locks the order again before it answers
\* AlreadyProcessed
finalStepLoadRelock ==
  /\ wallet # "none"
  /\ BagCardinality(chk) < NumChecks
  /\ LET order == getBoostOrderByPaymentAddress(orders, wallet) IN
       IF order = None
         THEN /\ last' = [IdleCheck EXCEPT !.pc = "done", !.result = "NotFound"]
              /\ chk' = chk
              /\ orders' = orders
       ELSE IF The(order).paymentStatus # "PENDING"
         THEN /\ last' = [IdleCheck EXCEPT !.pc = "done", !.order = order,
                                           !.result = "AlreadyProcessed",
                                           !.left = "PROCESSING"]
              /\ chk' = chk
              /\ orders' = updateBoostOrder(orders, wallet,
                                            [paymentStatus |-> "PROCESSING"])
       ELSE /\ chk' = chk (+) SetToBag({[IdleCheck EXCEPT !.pc = "query",
                                                          !.order = order]})
            /\ last' = IdleCheck
            /\ orders' = orders
  /\ UNCHANGED <<now, wallet, txs, balance, sweeps>>
  /\ UNCHANGED uiVars

\* finalStepLoad that tries a sweep to the master wallet for a missing order
finalStepLoadSweepMissing ==
  /\ wallet # "none"
  /\ BagCardinality(chk) < NumChecks
  /\ LET order == getBoostOrderByPaymentAddress(orders, wallet) IN
       IF order = None
         THEN /\ last' = [IdleCheck EXCEPT !.pc = "done", !.result = "NotFound"]
              /\ chk' = chk
              /\ sweeps' = Append(sweeps, [to |-> MASTER_WALLET,
                                           success |-> FALSE, amount |-> 0])
       ELSE IF The(order).paymentStatus # "PENDING"
         THEN /\ last' = [IdleCheck EXCEPT !.pc = "done", !.order = order,
                                           !.result = "AlreadyProcessed",
                                           !.left = The(order).paymentStatus]
              /\ chk' = chk
              /\ sweeps' = sweeps
       ELSE /\ chk' = chk (+) SetToBag({[IdleCheck EXCEPT !.pc = "query",
                                                          !.order = order]})
            /\ last' = IdleCheck
            /\ sweeps' = sweeps
  /\ UNCHANGED <<now, orders, wallet, txs, balance>>
  /\ UNCHANGED uiVars

\* finalStepLoad that takes a PROCESSING order like a PENDING one
finalStepLoadRetry ==
  /\ wallet # "none"
  /\ BagCardinality(chk) < NumChecks
  /\ LET order == getBoostOrderByPaymentAddress(orders, wallet) IN
       IF order = None
         THEN /\ last' = [IdleCheck EXCEPT !.pc = "done", !.result = "NotFound"]
              /\ chk' = chk
       ELSE IF The(order).paymentStatus \notin {"PENDING", "PROCESSING"}
         THEN /\ last' = [IdleCheck EXCEPT !.pc = "done", !.order = order,
                                           !.result = "AlreadyProcessed",
                                           !.left = The(order).paymentStatus]
              /\ chk' = chk
       ELSE /\ chk' = chk (+) SetToBag({[IdleCheck EXCEPT !.pc = "query",
                                                          !.order = order]})
            /\ last' = IdleCheck
  /\ UNCHANGED <<now, orders, wallet, txs, balance, sweeps>>
  /\ UNCHANGED uiVars

\* a "start_boosting" callback arrives in the wizard's last step:
\* getBoostOrderByPaymentAddress, then the two early returns
finalStepLoad ==
  /\ wallet # "none"
  /\ BagCardinality(chk) < NumChecks
  /\ LET order == getBoostOrderByPaymentAddress(orders, wallet) IN
       IF order = None
         THEN /\ last' = [IdleCheck EXCEPT !.pc = "done", !.result = "NotFound"]
              /\ chk' = chk
       ELSE IF The(order).paymentStatus # "PENDING"
         THEN /\ last' = [IdleCheck EXCEPT !.pc = "done", !.order = order,
                                           !.result = "AlreadyProcessed",
                                           !.left = The(order).paymentStatus]
              /\ chk' = chk
       ELSE /\ chk' = chk (+) SetToBag({[IdleCheck EXCEPT !.pc = "query",
                                                          !.order = order]})
            /\ last' = IdleCheck
  /\ UNCHANGED <<now, orders, wallet, txs, balance, sweeps>>
  /\ UNCHANGED uiVars

\* await getLastIncomingTx(order.paymentAddress)
finalStepQuery(c) ==
  /\ c.pc = "query"
  /\ \E queryOk \in BOOLEAN :
       Continue(c, [c EXCEPT !.pc = "classify",
                             !.transaction = getLastIncomingTx(txs, queryOk),
                             !.queryFailed = ~queryOk], orders)
  /\ UNCHANGED <<now, orders, wallet, txs, balance, sweeps>>
  /\ UNCHANGED uiVars

\* finalStepBranch without the test of the payment window
finalStepBranchNoExpiry(transaction, timeSinceCreation, priceSui) ==
  IF transaction = None
    THEN [pc |-> "done", lock |-> FALSE, expired |-> FALSE]
  ELSE IF The(transaction).amountInSui > 0
          /\ The(transaction).amountInSui < priceSui
    THEN [pc |-> "refund", lock |-> TRUE, expired |-> FALSE]
  ELSE IF The(transaction).amountInSui >= priceSui
    THEN [pc |-> "forward", lock |-> TRUE, expired |-> FALSE]
  ELSE [pc |-> "done", lock |-> TRUE, expired |-> FALSE]

\* finalStepBranch with the payment window closed at elapsed = window
finalStepBranchClosedAtWindow(transaction, timeSinceCreation, priceSui) ==
  IF transaction # None /\ timeSinceCreation >= ORDER_EXPIRATION_IN_MS
    THEN [pc |-> "refund", lock |-> TRUE, expired |-> TRUE]
  ELSE finalStepBranchNoExpiry(transaction, timeSinceCreation, priceSui)

\* finalStepBranch with overlapping tests: amount = price is insufficient too
finalStepBranchOverlap(transaction, timeSinceCreation, priceSui) ==
  IF transaction # None /\ timeSinceCreation > ORDER_EXPIRATION_IN_MS
    THEN [pc |-> "refund", lock |-> TRUE, expired |-> TRUE]
  ELSE IF transaction = None
    THEN [pc |-> "done", lock |-> FALSE, expired |-> FALSE]
  ELSE IF The(transaction).amountInSui > 0
          /\ The(transaction).amountInSui <= priceSui
    THEN [pc |-> "refund", lock |-> TRUE, expired |-> FALSE]
  ELSE [pc |-> "forward", lock |-> TRUE, expired |-> FALSE]

\* finalStepBranch that closes an unpaid order after the payment window
finalStepBranchExpireUnpaid(transaction, timeSinceCreation, priceSui) ==
  IF timeSinceCreation > ORDER_EXPIRATION_IN_MS
    THEN [pc |-> IF transaction = None THEN "done" ELSE "refund",
          lock |-> TRUE, expired |-> TRUE]
  ELSE finalStepBranchNoExpiry(transaction, timeSinceCreation, priceSui)

\* finalStepBranch that forwards without the write of PROCESSING
finalStepBranchNoLock(transaction, timeSinceCreation, priceSui) ==
  IF transaction # None /\ timeSinceCreation > ORDER_EXPIRATION_IN_MS
    THEN [pc |-> "refund", lock |-> TRUE, expired |-> TRUE]
  ELSE IF transaction = None
    THEN [pc |-> "done", lock |-> FALSE, expired |-> FALSE]
  ELSE IF The(transaction).amountInSui > 0
          /\ The(transaction).amountInSui < priceSui
    THEN [pc |-> "refund", lock |-> TRUE, expired |-> FALSE]
  ELSE [pc |-> "forward", lock |-> FALSE, expired |-> FALSE]

\* the branch finalStep takes on (transaction, timeSinceCreation): where it
\* continues and whether it writes PROCESSING first
finalStepBranch(transaction, timeSinceCreation, priceSui) ==
  IF transaction # None /\ timeSinceCreation > ORDER_EXPIRATION_IN_MS
    THEN [pc |-> "refund", lock |-> TRUE, expired |-> TRUE]
  ELSE IF transaction = None
    THEN [pc |-> "done", lock |-> FALSE, expired |-> FALSE]
  ELSE IF The(transaction).amountInSui > 0
          /\ The(transaction).amountInSui < priceSui
    THEN [pc |-> "refund", lock |-> TRUE, expired |-> FALSE]
  ELSE IF The(transaction).amountInSui >= priceSui
    THEN [pc |-> "forward", lock |-> TRUE, expired |-> FALSE]
  ELSE [pc |-> "done", lock |-> TRUE, expired |-> FALSE]

\* timeSinceCreation, the expired and the not-detected branch, and the
\* write of PROCESSING
finalStepClassify(c) ==
  /\ c.pc = "classify"
  /\ LET order == The(c.order)
         timeSinceCreation == now - order.createdAt
         b == finalStepBranch(c.transaction, timeSinceCreation, order.priceSui)
         table == IF b.lock
                    THEN updateBoostOrder(orders, order.paymentAddress,
                                          [paymentStatus |-> "PROCESSING"])
                    ELSE orders
     IN /\ orders' = table
        /\ Continue(c, [c EXCEPT !.pc = b.pc,
                                 !.timeSinceCreation = timeSinceCreation,
                                 !.expired = b.expired,
                                 !.writes = IF b.lock THEN 1 ELSE 0,
                                 !.result = IF b.pc = "done"
                                              THEN "PaymentNotDetected"
                                              ELSE @], table)
  /\ UNCHANGED <<now, wallet, txs, balance, sweeps>>
  /\ UNCHANGED uiVars

\* AfterRefund that goes on to forward after every refund within the window
AfterRefundForward(c) ==
  IF c.expired THEN "done" ELSE "forward"

\* where finalStep continues when refund has returned: the expired branch
\* returns, the other one goes on to the test of the forward branch
AfterRefund(c) ==
  IF c.expired THEN "done"
  ELSE IF The(c.transaction).amountInSui >= The(c.order).priceSui
    THEN "forward"
  ELSE "done"

\* TooSmall with a strict comparison
TooSmallStrict(transaction) ==
  transaction.amountInSui < MINIMUM_BALANCE_FOR_GAS

\* TooSmall without the test: every amount is sent back
TooSmallNever(transaction) ==
  FALSE

\* refund: the test of the amount against the gas minimum
TooSmall(transaction) ==
  transaction.amountInSui <= MINIMUM_BALANCE_FOR_GAS

\* refundData that leaves the order locked
refundDataProcessing == [paymentStatus |-> "PROCESSING"]

\* refundData that also resets the price of the order
refundDataRepriced == [paymentStatus |-> "EXPIRED", priceSui |-> 0]

\* the row data refund writes, after the too-small reply and after a
\* successful sendSui
refundData == [paymentStatus |-> "EXPIRED"]

\* refund: the amount is too small to be refunded
refundTooSmall(c) ==
  /\ c.pc = "refund"
  /\ TooSmall(The(c.transaction))
  /\ LET table == updateBoostOrder(orders, The(c.order).paymentAddress,
                                   refundData)
     IN /\ orders' = table
        /\ Continue(c, [c EXCEPT !.pc = AfterRefund(c), !.writes = @ + 1,
                                 !.did = @ \cup {"tooSmall"},
                                 !.result = "TooSmallToRefund"], table)
  /\ UNCHANGED <<now, wallet, txs, balance, sweeps>>
  /\ UNCHANGED uiVars

\* refund: sendSui(order.paymentPrivateKey, transaction.sender)
refundSend(c) ==
  /\ c.pc = "refund"
  /\ ~TooSmall(The(c.transaction))
  /\ \E ok \in BOOLEAN :
       /\ sendSui(The(c.transaction).sender, ok)
       /\ Continue(c, [c EXCEPT !.pc = "refunded",
                                !.did = @ \cup {"refund"},
                                !.tx = Some(sendSuiResult(ok, NextSweepDigest,
                                              The(c.transaction).sender))],
                   orders)
  /\ UNCHANGED <<now, orders, wallet, txs>>
  /\ UNCHANGED uiVars

\* refundDone that opens the order again when the refund has failed
refundDoneReopen(c) ==
  /\ c.pc = "refunded"
  /\ LET success == The(c.tx).success
         table == updateBoostOrder(orders, The(c.order).paymentAddress,
                    IF success THEN refundData
                    ELSE [paymentStatus |-> "PENDING"])
     IN /\ orders' = table
        /\ Continue(c, [c EXCEPT !.pc = AfterRefund(c),
                                 !.writes = @ + 1,
                                 !.result = IF success THEN "Refunded"
                                            ELSE "RefundFailed"], table)
  /\ UNCHANGED <<now, wallet, txs, balance, sweeps>>
  /\ UNCHANGED uiVars

\* refund: after sendSui; a failed refund returns without a write
refundDone(c) ==
  /\ c.pc = "refunded"
  /\ LET success == The(c.tx).success
         table == IF success
                    THEN updateBoostOrder(orders,
                           The(c.order).paymentAddress, refundData)
                    ELSE orders
     IN /\ orders' = table
        /\ Continue(c, [c EXCEPT !.pc = AfterRefund(c),
                                 !.writes = IF success THEN @ + 1 ELSE @,
                                 !.result = IF success THEN "Refunded"
                                            ELSE "RefundFailed"], table)
  /\ UNCHANGED <<now, wallet, txs, balance, sweeps>>
  /\ UNCHANGED uiVars

\* forward: sendSui(order.paymentPrivateKey, MASTER_WALLET)
forwardSend(c) ==
  /\ c.pc = "forward"
  /\ \E ok \in BOOLEAN :
       /\ sendSui(MASTER_WALLET, ok)
       /\ Continue(c, [c EXCEPT !.pc = "forwarded",
                                !.did = @ \cup {"forward"},
                                !.tx = Some(sendSuiResult(ok, NextSweepDigest,
                                                          MASTER_WALLET))],
                   orders)
  /\ UNCHANGED <<now, orders, wallet, txs>>
  /\ UNCHANGED uiVars

\* forwardDone that records the transaction as a refund as well
forwardDoneBothHashes(c) ==
  /\ c.pc = "forwarded"
  /\ \E skew \in 0..MaxSkew :
      LET order == The(c.order)
          tx    == The(c.tx)
          table == updateBoostOrder(orders, order.paymentAddress,
             IF ~tx.success
               THEN [paymentStatus |-> "EXPIRED"]
               ELSE [ paymentStatus          |-> "CONFIRMED",
                      boostStartedAt         |-> Some(now),
                      boostEndsAt            |-> Some((now + skew) +
                          order.boostDurationHours * MS_PER_HOUR),
                      paymentTransactionHash |-> tx.transactionHash,
                      refundTransactionHash  |-> tx.transactionHash,
                      refundAddress          |-> Some(tx.to) ])
      IN /\ orders' = table
         /\ Continue(c, [c EXCEPT !.pc = "done", !.writes = @ + 1,
                                  !.result = IF tx.success THEN "Confirmed"
                                             ELSE "ForwardFailed"], table)
  /\ UNCHANGED <<now, wallet, txs, balance, sweeps>>
  /\ UNCHANGED uiVars

\* forward: after sendSui; EXPIRED on failure, CONFIRMED with the boost
\* period and the transaction hash on success.  The clock is read twice,
\* by new Date() for boostStartedAt and then by Date.now() for boostEndsAt:
\* the second read is the first one or later.
forwardDone(c) ==
  /\ c.pc = "forwarded"
  /\ \E skew \in 0..MaxSkew :
      LET order == The(c.order)
          tx    == The(c.tx)
          table == updateBoostOrder(orders, order.paymentAddress,
             IF ~tx.success
               THEN [paymentStatus |-> "EXPIRED"]
               ELSE [ paymentStatus          |-> "CONFIRMED",
                      boostStartedAt         |-> Some(now),
                      boostEndsAt            |-> Some((now + skew) +
                          order.boostDurationHours * MS_PER_HOUR),
                      paymentTransactionHash |-> tx.transactionHash ])
      IN /\ orders' = table
         /\ Continue(c, [c EXCEPT !.pc = "done", !.writes = @ + 1,
                                  !.result = IF tx.success THEN "Confirmed"
                                             ELSE "ForwardFailed"], table)
  /\ UNCHANGED <<now, wallet, txs, balance, sweeps>>
  /\ UNCHANGED uiVars

Next ==
  \/ Tick
  \/ Deposit
  \/ paymentStep
  \/ finalStepLoad
  \/ \E c \in BagToSet(chk) : finalStepQuery(c)
  \/ \E c \in BagToSet(chk) : finalStepClassify(c)
  \/ \E c \in BagToSet(chk) : refundTooSmall(c)
  \/ \E c \in BagToSet(chk) : refundSend(c)
  \/ \E c \in BagToSet(chk) : refundDone(c)
  \/ \E c \in BagToSet(chk) : forwardSend(c)
  \/ \E c \in BagToSet(chk) : forwardDone(c)

Spec == Init /\ [][Next]_vars

\* ------------------------------------------------- non-overlapping checks
\* "start_boosting" is pressed only when no invocation of finalStep is
\* running: every check returns before the next one starts
finalStepLoadAlone ==
  /\ chk = EmptyBag
  /\ finalStepLoad

\* the runs of non-overlapping checks, on a ledger with one transaction
\* more than in Spec
NextSeq ==
  \/ Tick
  \/ DepositUpTo(MaxTx + 1)
  \/ paymentStep
  \/ finalStepLoadAlone
  \/ \E c \in BagToSet(chk) : finalStepQuery(c)
  \/ \E c \in BagToSet(chk) : finalStepClassify(c)
  \/ \E c \in BagToSet(chk) : refundTooSmall(c)
  \/ \E c \in BagToSet(chk) : refundSend(c)
  \/ \E c \in BagToSet(chk) : refundDone(c)
  \/ \E c \in BagToSet(chk) : forwardSend(c)
  \/ \E c \in BagToSet(chk) : forwardDone(c)

SeqSpec == Init /\ [][NextSeq]_vars

\* ---------------------------------------------------------- order intake
\* /start in the middle of the wizard restarts it: the user goes through
\* the steps again and paymentStep creates another wallet and order, which
\* the session then points to.  The ledger variables follow the session's
\* wallet, so the restart is taken before anything was sent to the old one.
paymentStepAgain ==
  /\ wallet \in DOMAIN orders
  /\ chk = EmptyBag
  /\ txs = <<>>
  /\ Cardinality(DOMAIN orders) < MaxOrders
  /\ \E duration \in Durations :
       LET price == PRICES[duration]
           w     == createWallet(Cardinality(DOMAIN orders) + 1)
       IN /\ wallet' = w.address
          /\ orders' = createBoostOrder(orders, duration, price, w, now)
  /\ last' = IdleCheck
  /\ UNCHANGED <<now, txs, balance, chk, sweeps>>
  /\ UNCHANGED uiVars

\* the row of the session's wallet is removed from the table by its
\* operator, outside the bot: the case finalStep answers ORDER NOT FOUND
OrderRemoved ==
  /\ wallet \in DOMAIN orders
  /\ chk = EmptyBag
  /\ orders' = [a \in DOMAIN orders \ {wallet} |-> orders[a]]
  /\ last' = IdleCheck
  /\ UNCHANGED <<now, wallet, txs, balance, chk, sweeps>>
  /\ UNCHANGED uiVars

\* the runs of non-overlapping checks with several orders
NextIntake ==
  \/ Tick
  \/ Deposit
  \/ paymentStep
  \/ paymentStepAgain
  \/ OrderRemoved
  \/ finalStepLoadAlone
  \/ \E c \in BagToSet(chk) : finalStepQuery(c)
  \/ \E c \in BagToSet(chk) : finalStepClassify(c)
  \/ \E c \in BagToSet(chk) : refundTooSmall(c)
  \/ \E c \in BagToSet(chk) : refundSend(c)
  \/ \E c \in BagToSet(chk) : refundDone(c)
  \/ \E c \in BagToSet(chk) : forwardSend(c)
  \/ \E c \in BagToSet(chk) : forwardDone(c)

IntakeSpec == Init /\ [][NextIntake]_vars

\* ----------------------------------------------------------- order editor
\* src/handlers/field-edit.ts: a button edit_<field>_<orderId> stores a
\* pending edit for the user who pressed it, and the user's next text
\* message is the new value of that field
Users == {"u1", "u2"}

\* the columns of the BoostOrder model
Columns ==
  { "id", "telegramChatId", "userId", "tokenAddress", "tgUrl", "emoji",
    "website", "telegramHandle", "xHandle", "boostPackage",
    "boostDurationHours", "priceSui", "paymentAddress", "paymentPrivateKey",
    "paymentStatus", "paymentTransactionHash", "refundTransactionHash",
    "refundAddress", "boostStartedAt", "boostEndsAt", "createdAt",
    "updatedAt" }

\* the fields of the buttons of handleOrderEdit
EditFields == {"token", "emoji", "website", "telegram", "x"}

\* the buttons that are pressed: of a field that is a column of the model
\* and of one that is not
PressedFields == {"website", "x"}

\* the callback data handleOrderCallbacks passes on: a field button of an
\* order that was created, or the cancel button
Callbacks ==
  [action : {"edit"}, field : PressedFields, orderId : DOMAIN boostOrder]
    \cup {[action |-> "cancel_field_edit", field |-> "none", orderId |-> 0]}

\* the text messages sent to the order editor
EditTexts == {"/cancel", "/CANCEL", "rocket", "https://mytoken.com"}

\* the text messages sent to the whale bot
TOKEN_EXAMPLE ==
  "0xc1a35b6a9771e6eb69e3b36e921a3a373e6d33e6f863dab6949ed3c2d1228f73::neonet::NEONET"
Texts ==
  { TOKEN_EXAMPLE, "$", "1200", "500", "https://t.me/neonet_agent",
    "@neonet_agent" }

\* String.prototype.toLowerCase
toLowerCase(t) == IF t = "/CANCEL" THEN "/cancel" ELSE t

\* String.prototype.length
length(t) ==
  CASE t = "/cancel" -> 7
    [] t = "/CANCEL" -> 7
    [] t = "rocket" -> 6
    [] t = "https://mytoken.com" -> 19
    [] t = TOKEN_EXAMPLE -> 82
    [] t = "$" -> 1
    [] t = "1200" -> 4
    [] t = "500" -> 3
    [] t = "https://t.me/neonet_agent" -> 25
    [] t = "@neonet_agent" -> 13

\* String.prototype.includes
includes(t, part) ==
  <<t, part>> \in { <<"https://mytoken.com", "://">>,
                    <<"https://t.me/neonet_agent", "://">>,
                    <<TOKEN_EXAMPLE, "::">> }

\* String.prototype.startsWith
startsWith(t, prefix) ==
  <<t, prefix>> \in { <<"https://mytoken.com", "https://">>,
                      <<"/cancel", "/">>, <<"/CANCEL", "/">>,
                      <<"https://t.me/neonet_agent", "https://">>,
                      <<"https://t.me/neonet_agent", "https://t.me/">>,
                      <<"@neonet_agent", "@">> }

\* value.match(/^[a-zA-Z0-9_]+$/)
IsWord(t) == t \in {"rocket"}

\* `@${value}`
AtPrefixed(t) == IF t = "rocket" THEN "@rocket" ELSE t

\* isValidTelegramUrl of lib/utils
isValidTelegramUrl(url) ==
  startsWith(url, "https://t.me/") \/ startsWith(url, "t.me/")

\* validateFieldInput: the answer for a value of a field
validateFieldInput(field, value) ==
  CASE field = "token" ->
         IF length(value) < 10 \/ ~includes(value, "::")
           THEN [valid |-> FALSE, value |-> value]
           ELSE [valid |-> TRUE, value |-> value]
    [] field = "emoji" ->
         IF length(value) > 10
           THEN [valid |-> FALSE, value |-> value]
           ELSE [valid |-> TRUE, value |-> value]
    [] field = "website" ->
         IF ~startsWith(value, "http://") /\ ~startsWith(value, "https://")
           THEN [valid |-> FALSE, value |-> value]
           ELSE [valid |-> TRUE, value |-> value]
    [] field = "telegram" ->
         IF ~isValidTelegramUrl(value)
           THEN [valid |-> FALSE, value |-> value]
           ELSE [valid |-> TRUE, value |-> value]
    [] field = "x" ->
         IF startsWith(value, "@") THEN [valid |-> TRUE, value |-> value]
         ELSE IF startsWith(value, "https://x.com/")
                   \/ startsWith(value, "https://twitter.com/")
           THEN [valid |-> TRUE, value |-> value]
         ELSE IF IsWord(value)
           THEN [valid |-> TRUE, value |-> AtPrefixed(value)]
         ELSE [valid |-> FALSE, value |-> value]
    [] OTHER -> [valid |-> FALSE, value |-> value]

\* Map.prototype.set, get and delete on the entries of pendingEdits
MapSet(map, userId, orderId, field) ==
  {e \in map : e.userId # userId}
    \cup {[userId |-> userId, orderId |-> orderId, field |-> field]}

MapGet(map, userId) == {e \in map : e.userId = userId}

MapDelete(map, userId) == {e \in map : e.userId # userId}

\* prisma.boostOrder.findUnique({where: {id}}): a removed row is not found
getOrderById(table, orderId) ==
  IF orderId \in DOMAIN table THEN table[orderId] ELSE None

\* prisma.boostOrder.update({where: {id}, data: {[field]: value}}) is
\* refused for a field that is no column of the model and for a row that
\* does not exist
updateOrderFieldRefused(table, orderId, field) ==
  field \notin Columns \/ getOrderById(table, orderId) = None

updateOrderField(table, orderId, field, value) ==
  [table EXCEPT ![orderId] = Some([The(@) EXCEPT ![field] = Some(value)])]

\* the test of handleFieldEditMessage without the comparison of the users
OwnsOrderAnyUser(order, userId) == order # None

\* !(!order || order.userId !== userId)
OwnsOrder(order, userId) == order # None /\ The(order).userId = userId

\* what a handler of the order editor answers to a user
Answer(handler, userId, outcome) ==
  [NoReply EXCEPT !.handler = handler, !.userId = userId,
                  !.outcome = outcome]

\* the users go through the order wizard in turn: paymentStep creates a row
\* with the userId of the user, the emoji of paymentStep and no website
OrderCreated ==
  /\ Len(boostOrder) < MaxEdited
  /\ LET u == IF Len(boostOrder) % 2 = 0 THEN "u1" ELSE "u2"
     IN boostOrder' = Append(boostOrder,
                             Some([userId |-> u, emoji |-> Some("whale"),
                                   website |-> None]))
  /\ reply' = NoReply
  /\ UNCHANGED <<pendingEdits, msg, session, botGroup>>
  /\ UNCHANGED payVars

\* a row is removed from the table by its operator, outside the bot
OrderDeleted ==
  /\ \E id \in DOMAIN boostOrder :
       /\ boostOrder[id] # None
       /\ boostOrder' = [boostOrder EXCEPT ![id] = None]
  /\ reply' = NoReply
  /\ UNCHANGED <<pendingEdits, msg, session, botGroup>>
  /\ UNCHANGED payVars

\* handleFieldEditCallback: a field button stores the pending edit of the
\* user, the cancel button removes it
handleFieldEditCallback ==
  /\ \E u \in Users : \E data \in Callbacks :
       IF data.action = "edit"
         THEN /\ pendingEdits' =
                   MapSet(pendingEdits, u, data.orderId, data.field)
              /\ reply' = Answer("handleFieldEditCallback", u, "prompt")
         ELSE /\ pendingEdits' = MapDelete(pendingEdits, u)
              /\ reply' = Answer("handleFieldEditCallback", u, "cancelled")
  /\ UNCHANGED <<boostOrder, msg, session, botGroup>>
  /\ UNCHANGED payVars

\* handleFieldEditMessage up to its first await: no pending edit, /cancel,
\* an invalid value, or the call of getOrderById
handleFieldEditMessage ==
  /\ \E u \in Users : \E text \in EditTexts :
       LET pendingEdit == MapGet(pendingEdits, u)
       IN IF pendingEdit = None
            THEN /\ reply' = Answer("handleFieldEditMessage", u, "next")
                 /\ UNCHANGED <<pendingEdits, msg>>
          ELSE LET orderId == The(pendingEdit).orderId
                   field   == The(pendingEdit).field
                   validationResult == validateFieldInput(field, text)
               IN IF toLowerCase(text) = "/cancel"
                    THEN /\ pendingEdits' = MapDelete(pendingEdits, u)
                         /\ reply' = Answer("handleFieldEditMessage", u,
                                            "cancelled")
                         /\ UNCHANGED msg
                  ELSE IF ~validationResult.valid
                    THEN /\ reply' = Answer("handleFieldEditMessage", u,
                                            "invalid")
                         /\ UNCHANGED <<pendingEdits, msg>>
                  ELSE /\ BagCardinality(msg) < NumEdits
                       /\ msg' = msg (+) SetToBag({
                            [ userId |-> u, orderId |-> orderId,
                              field |-> field,
                              value |-> validationResult.value,
                              pc |-> "getOrderById" ]})
                       /\ reply' = NoReply
                       /\ UNCHANGED pendingEdits
  /\ UNCHANGED <<boostOrder, session, botGroup>>
  /\ UNCHANGED payVars

\* getOrderById returns to the invocation m (or throws): the order is
\* missing or of another user, or updateOrderField is called
handleFieldEditMessageOrder(m) ==
  /\ m.pc = "getOrderById"
  /\ \E ok \in BOOLEAN :
       LET order == getOrderById(boostOrder, m.orderId)
       IN IF ~ok
            THEN /\ pendingEdits' = MapDelete(pendingEdits, m.userId)
                 /\ msg' = msg (-) SetToBag({m})
                 /\ reply' = Answer("handleFieldEditMessage", m.userId,
                                    "error")
          ELSE IF ~OwnsOrder(order, m.userId)
            THEN /\ pendingEdits' = MapDelete(pendingEdits, m.userId)
                 /\ msg' = msg (-) SetToBag({m})
                 /\ reply' = Answer("handleFieldEditMessage", m.userId,
                                    "denied")
          ELSE /\ msg' = (msg (-) SetToBag({m}))
                           (+) SetToBag({[m EXCEPT !.pc = "updateOrderField"]})
               /\ reply' = NoReply
               /\ UNCHANGED pendingEdits
  /\ UNCHANGED <<boostOrder, session, botGroup>>
  /\ UNCHANGED payVars

\* updateOrderField returns to the invocation m (or throws): the pending
\* edit of the user is removed in both cases
handleFieldEditMessageUpdate(m) ==
  /\ m.pc = "updateOrderField"
  /\ \E ok \in BOOLEAN :
       IF ok /\ ~updateOrderFieldRefused(boostOrder, m.orderId, m.field)
         THEN /\ boostOrder' =
                   updateOrderField(boostOrder, m.orderId, m.field, m.value)
              /\ reply' = [Answer("handleFieldEditMessage", m.userId,
                                  "updated")
                             EXCEPT !.orderId = m.orderId, !.field = m.field,
                                    !.value = Some(m.value)]
         ELSE /\ reply' = Answer("handleFieldEditMessage", m.userId,
                                 "error")
              /\ UNCHANGED boostOrder
  /\ pendingEdits' = MapDelete(pendingEdits, m.userId)
  /\ msg' = msg (-) SetToBag({m})
  /\ UNCHANGED <<session, botGroup>>
  /\ UNCHANGED payVars

NextField ==
  \/ OrderCreated
  \/ OrderDeleted
  \/ handleFieldEditCallback
  \/ handleFieldEditMessage
  \/ \E m \in BagToSet(msg) : handleFieldEditMessageOrder(m)
  \/ \E m \in BagToSet(msg) : handleFieldEditMessageUpdate(m)

FieldSpec == Init /\ [][NextField]_vars

\* ------------------------------------------------- whale bot: group editor
\* src/index.ts: a button of editGroupMessage sets a flag of
\* session.pendingEdits, and the next message of the chat is taken as the
\* value of that setting of the selected group
Groups == {"g1"}

MIN_WHALE_BUY == 1000
MAX_EMOJI_LENGTH == 1

\* the keys of BotSession.pendingEdits; a key is in the set when it is true
SessionKeys ==
  { "waitingForToken", "waitingForEmoji", "waitingForMinBuy",
    "waitingForMedia", "waitingForWebsite", "waitingForTelegram",
    "waitingForX" }

\* editGroupActions: the button and its session key
editGroupActions ==
  [ update_token    |-> [sessionKey |-> "waitingForToken"],
    update_emoji    |-> [sessionKey |-> "waitingForEmoji"],
    update_min_buy  |-> [sessionKey |-> "waitingForMinBuy"],
    update_website  |-> [sessionKey |-> "waitingForWebsite"],
    update_telegram |-> [sessionKey |-> "waitingForTelegram"],
    update_x        |-> [sessionKey |-> "waitingForX"],
    update_media    |-> [sessionKey |-> "waitingForMedia"] ]

\* the kinds of media message that are sent: the first and the last branch
\* of the handler
MediaTypes == {"PHOTO", "ANIMATION"}

\* parseFloat: the number the text starts with, the empty set for NaN
parseFloat(t) ==
  CASE t = "1200" -> {1200}
    [] t = "500" -> {500}
    [] t = TOKEN_EXAMPLE -> {0}
    [] OTHER -> {}

\* parseFloat(messageText) < MIN_WHALE_BUY: false for NaN
BelowMinBuy(t) == parseFloat(t) # {} /\ The(parseFloat(t)) < MIN_WHALE_BUY

\* isValidSuiAddress: 0x and 64 hex digits, alone or with ::module::name
isValidSuiAddress(address) == address \in {TOKEN_EXAMPLE}

\* new URL(value) succeeds and its protocol is http: or https:
isValidWebsite(value) ==
  includes(value, "://")
    /\ (startsWith(value, "http://") \/ startsWith(value, "https://"))

\* isValidXHandle: @ and 4 to 15 word characters, or such a name after
\* twitter.com/ or x.com/
isValidXHandle(value) ==
  IF startsWith(value, "@") THEN length(value) - 1 \in 4..15
  ELSE startsWith(value, "https://x.com/")
         \/ startsWith(value, "https://twitter.com/")

\* the if-else chain of the text handler without its last branch
TextFieldWithoutX(pending) ==
  IF "waitingForToken" \in pending THEN "waitingForToken"
  ELSE IF "waitingForEmoji" \in pending THEN "waitingForEmoji"
  ELSE IF "waitingForMinBuy" \in pending THEN "waitingForMinBuy"
  ELSE IF "waitingForWebsite" \in pending THEN "waitingForWebsite"
  ELSE IF "waitingForTelegram" \in pending THEN "waitingForTelegram"
  ELSE "none"

\* the branch of the text handler that is taken: the first key of the
\* if-else chain that is set, "none" when the chain falls through
TextField(pending) ==
  IF "waitingForToken" \in pending THEN "waitingForToken"
  ELSE IF "waitingForEmoji" \in pending THEN "waitingForEmoji"
  ELSE IF "waitingForMinBuy" \in pending THEN "waitingForMinBuy"
  ELSE IF "waitingForWebsite" \in pending THEN "waitingForWebsite"
  ELSE IF "waitingForTelegram" \in pending THEN "waitingForTelegram"
  ELSE IF "waitingForX" \in pending THEN "waitingForX"
  ELSE "none"

\* the test of the branch: the text is refused
Rejected(key, messageText) ==
  CASE key = "waitingForToken" -> ~isValidSuiAddress(messageText)
    [] key = "waitingForEmoji" -> length(messageText) > MAX_EMOJI_LENGTH
    [] key = "waitingForMinBuy" -> BelowMinBuy(messageText)
    [] key = "waitingForWebsite" -> ~isValidWebsite(messageText)
    [] key = "waitingForTelegram" -> ~isValidTelegramUrl(messageText)
    [] key = "waitingForX" -> ~isValidXHandle(messageText)

\* the data of the branch's updateBotGroup
TextData(key, messageText) ==
  CASE key = "waitingForToken" -> [tokenAddress |-> Some(messageText)]
    [] key = "waitingForEmoji" -> [emoji |-> Some(messageText)]
    [] key = "waitingForMinBuy" -> [minBuy |-> Some(parseFloat(messageText))]
    [] key = "waitingForWebsite" -> [website |-> Some(messageText)]
    [] key = "waitingForTelegram" -> [telegram |-> Some(messageText)]
    [] key = "waitingForX" -> [x |-> Some(messageText)]

\* prisma.botGroup.create: the row of a group the bot was added to
createBotGroup(table, groupId) ==
  [g \in DOMAIN table \cup {groupId} |->
     IF g \in DOMAIN table THEN table[g]
     ELSE [ tokenAddress |-> None, emoji |-> None, minBuy |-> None,
            website |-> None, telegram |-> None, x |-> None,
            mediaType |-> None, mediaUrl |-> None ]]

\* prisma.botGroup.delete
deleteBotGroup(table, groupId) ==
  [g \in DOMAIN table \ {groupId} |-> table[g]]

\* prisma.botGroup.update({where: {groupId}, data}); it throws when there
\* is no such row
updateBotGroup(table, groupId, data) ==
  [table EXCEPT ![groupId] =
     [f \in DOMAIN @ |-> IF f \in DOMAIN data THEN data[f] ELSE @[f]]]

\* ctx.session.selectedGroupId || ""
SelectedGroupId == IF session.selectedGroupId = None THEN ""
                   ELSE The(session.selectedGroupId)

\* createWaitingAction that sets its key without clearing the others
createWaitingActionKeep(s, sessionKey) ==
  [s EXCEPT !.pendingEdits = @ \cup {sessionKey}]

\* createWaitingAction: pendingEdits = {}, then pendingEdits[sessionKey] =
\* true
createWaitingAction(s, sessionKey) ==
  LET cleared == [s EXCEPT !.pendingEdits = {}]
  IN [cleared EXCEPT !.pendingEdits = @ \cup {sessionKey}]

\* my_chat_member: the bot is added to a group or removed from it
my_chat_member ==
  /\ \E g \in Groups :
       botGroup' = IF g \in DOMAIN botGroup THEN deleteBotGroup(botGroup, g)
                   ELSE createBotGroup(botGroup, g)
  /\ reply' = NoReply
  /\ UNCHANGED <<boostOrder, pendingEdits, msg, session>>
  /\ UNCHANGED payVars

\* the button edit_group_<groupId> of the list of groups
edit_group ==
  /\ \E g \in Groups :
       session' = [session EXCEPT !.selectedGroupId = Some(g)]
  /\ reply' = Answer("edit_group", "chat", "menu")
  /\ UNCHANGED <<boostOrder, pendingEdits, msg, botGroup>>
  /\ UNCHANGED payVars

\* a button of editGroupActions
editGroupAction ==
  /\ \E action \in DOMAIN editGroupActions :
       LET sessionKey == editGroupActions[action].sessionKey
       IN /\ session' = createWaitingAction(session, sessionKey)
          /\ reply' = [Answer("createWaitingAction", "chat", "prompt")
                         EXCEPT !.field = sessionKey]
  /\ UNCHANGED <<boostOrder, pendingEdits, msg, botGroup>>
  /\ UNCHANGED payVars

\* bot.on(message("text")): the branch of the flag that is set refuses the
\* text or saves it and returns; without such a flag the flags are cleared
text ==
  /\ \E messageText \in Texts : \E ok \in BOOLEAN :
       LET key == TextField(session.pendingEdits)
       IN IF key = "none"
            THEN /\ session' = [session EXCEPT !.pendingEdits = {}]
                 /\ reply' = Answer("text", "chat", "cleared")
                 /\ UNCHANGED botGroup
          ELSE IF Rejected(key, messageText)
            THEN /\ reply' = [Answer("text", "chat", "rejected")
                                EXCEPT !.field = key]
                 /\ UNCHANGED <<session, botGroup>>
          ELSE IF ok /\ SelectedGroupId \in DOMAIN botGroup
            THEN /\ botGroup' = updateBotGroup(botGroup, SelectedGroupId,
                                               TextData(key, messageText))
                 /\ reply' = [Answer("text", "chat", "saved")
                                EXCEPT !.field = key]
                 /\ UNCHANGED session
          ELSE /\ reply' = [Answer("text", "chat", "failed")
                              EXCEPT !.field = key]
               /\ UNCHANGED <<session, botGroup>>
  /\ UNCHANGED <<boostOrder, pendingEdits, msg>>
  /\ UNCHANGED payVars

\* bot.on(["photo", "video", "animation"]) up to its await: with the media
\* flag set updateBotGroup is called, otherwise nothing is done
media ==
  /\ \E mediaType \in MediaTypes :
       IF "waitingForMedia" \in session.pendingEdits
         THEN /\ BagCardinality(msg) < NumEdits
              /\ msg' = msg (+) SetToBag({[ pc |-> "updateBotGroup",
                                            groupId |-> SelectedGroupId,
                                            mediaType |-> mediaType ]})
              /\ reply' = NoReply
         ELSE /\ reply' = Answer("media", "chat", "ignored")
              /\ UNCHANGED msg
  /\ UNCHANGED <<boostOrder, pendingEdits, session, botGroup>>
  /\ UNCHANGED payVars

\* updateBotGroup returns to the media handler m, which clears the flags,
\* or throws
mediaSaved(m) ==
  /\ m.pc = "updateBotGroup"
  /\ \E ok \in BOOLEAN :
       IF ok /\ m.groupId \in DOMAIN botGroup
         THEN /\ botGroup' = updateBotGroup(botGroup, m.groupId,
                               [ mediaType |-> Some(m.mediaType),
                                 mediaUrl  |-> Some("file_id") ])
              /\ session' = [session EXCEPT !.pendingEdits = {}]
              /\ reply' = Answer("media", "chat", "saved")
         ELSE /\ reply' = Answer("media", "chat", "failed")
              /\ UNCHANGED <<session, botGroup>>
  /\ msg' = msg (-) SetToBag({m})
  /\ UNCHANGED <<boostOrder, pendingEdits>>
  /\ UNCHANGED payVars

NextSession ==
  \/ my_chat_member
  \/ edit_group
  \/ editGroupAction
  \/ text
  \/ media
  \/ \E m \in BagToSet(msg) : mediaSaved(m)

SessionSpec == Init /\ [][NextSession]_vars

\* ------------------------------------------------------------ properties
\* the invocations of finalStep: the running ones and the last one returned
Checks == BagToSet(chk) \cup {last}
\* pairs of different invocations
CheckPairs ==
  {cd \in Checks \X Checks :
     cd[1] # cd[2] \/ CopiesIn(cd[1], chk) >= 2
     \/ (cd[1] = last /\ CopiesIn(cd[1], chk) >= 1)}
\* the transfer a check has observed and the price of its order
Amount(c) == The(c.transaction).amountInSui
Sender(c) == The(c.transaction).sender
Price(c) == The(c.order).priceSui
\* the check has observed a transfer and has read the clock
Classified(c) ==
  c.transaction # None /\ c.pc \notin {"idle", "query", "classify"}
StatusRank(s) == CASE s = "PENDING" -> 0 [] s = "PROCESSING" -> 1 [] OTHER -> 2

\* C1: for an order, sendSui is invoked at most once in total, by a forward
\* or by a refund, whatever the interleaving of the checks.
C1_AtMostOneSweep ==
  Len(sweeps) <= 1

\* C2: the stored status of an order only moves forward along PENDING ->
\* PROCESSING -> {CONFIRMED, EXPIRED}; CONFIRMED and EXPIRED never change.
C2_MonotonicStatus ==
  [][\A a \in DOMAIN orders :
       orders'[a].paymentStatus # orders[a].paymentStatus =>
         StatusRank(orders'[a].paymentStatus)
           > StatusRank(orders[a].paymentStatus)]_vars

\* C3: of two checks that have read the same order as PENDING and have both
\* observed the transfer, one is turned away: it writes nothing, sends
\* nothing and returns AlreadyProcessed.
C3_ExactlyOneSettles ==
  \A cd \in CheckPairs :
    (Classified(cd[1]) /\ Classified(cd[2]))
    => \E l \in {cd[1], cd[2]} :
         /\ l.writes = 0
         /\ l.tx = None
         /\ l.pc = "done" => l.result = "AlreadyProcessed"

\* C4: a check that reads an elapsed time greater than the payment window
\* never forwards and never confirms: what it sends goes to the sender of
\* the transfer, also when the amount reaches the price.
C4_NoForwardAfterWindow ==
  \A c \in Checks :
    (Classified(c) /\ c.timeSinceCreation > ORDER_EXPIRATION_IN_MS)
    => /\ c.pc \notin {"forward", "forwarded"}
       /\ "forward" \notin c.did
       /\ c.result # "Confirmed"
       /\ c.tx # None => The(c.tx).to = Sender(c)
       /\ (c.pc = "done" /\ c.tx # None /\ The(c.tx).success)
            => c.result = "Refunded"

C4_Witness ==
  /\ last.pc = "done" /\ last.transaction # None
  /\ last.timeSinceCreation > ORDER_EXPIRATION_IN_MS
  /\ Amount(last) >= Price(last)
  /\ last.result = "Refunded"
  /\ The(last.tx).to = Sender(last)

\* C5: a check on a PENDING order that observes amount >= price, amount >
\* gas minimum and elapsed <= window takes the forward branch, sends to the
\* master wallet and, when that succeeds, leaves the order CONFIRMED.
C5_ForwardConfirms ==
  \A c \in Checks :
    (/\ Classified(c)
     /\ c.timeSinceCreation <= ORDER_EXPIRATION_IN_MS
     /\ Amount(c) >= Price(c)
     /\ Amount(c) > MINIMUM_BALANCE_FOR_GAS)
    => /\ c.pc \in {"forward", "forwarded", "done"}
       /\ c.pc # "forward" =>
            c.did = {"forward"} /\ The(c.tx).to = MASTER_WALLET
       /\ (c.pc = "done" /\ The(c.tx).success)
            => c.result = "Confirmed" /\ c.left = "CONFIRMED"

C5_Witness ==
  /\ last.pc = "done" /\ last.result = "Confirmed"
  /\ last.timeSinceCreation = ORDER_EXPIRATION_IN_MS
  /\ The(last.tx).to = MASTER_WALLET
  /\ last.left = "CONFIRMED"

\* C6: a check on a PENDING order that observes, within the window, a
\* transfer above the gas minimum and below the price takes the refund
\* branch, sends to the sender of the transfer and, when that succeeds,
\* leaves the order EXPIRED.
C6_RefundInsufficient ==
  \A c \in Checks :
    (/\ Classified(c)
     /\ c.timeSinceCreation <= ORDER_EXPIRATION_IN_MS
     /\ Amount(c) < Price(c)
     /\ Amount(c) > MINIMUM_BALANCE_FOR_GAS)
    => /\ c.pc \in {"refund", "refunded", "done"}
       /\ c.pc # "refund" =>
            c.did = {"refund"} /\ The(c.tx).to = Sender(c)
       /\ (c.pc = "done" /\ The(c.tx).success)
            => c.result = "Refunded" /\ c.left = "EXPIRED"

C6_Witness ==
  /\ last.pc = "done" /\ last.result = "Refunded"
  /\ last.timeSinceCreation <= ORDER_EXPIRATION_IN_MS
  /\ Amount(last) < Price(last)
  /\ The(last.tx).to = Sender(last)
  /\ last.left = "EXPIRED"

\* C7: when the sendSui of a check fails, in forward or in refund, the
\* status of the order is EXPIRED when that check returns.
C7_FailedSweepExpires ==
  (last.pc = "done" /\ last.tx # None /\ ~The(last.tx).success)
  => last.left = "EXPIRED"

C10_ExactlyOneAction ==
  \A c \in Checks :
    /\ Cardinality(c.did) <= 1
    /\ c.writes = 0 => c.did = {}
    /\ (c.writes > 0 /\ c.pc \in {"refunded", "forwarded", "done"})
         => Cardinality(c.did) = 1
    /\ (c.pc = "done" /\ c.transaction # None) => c.writes > 0

C10_Witness ==
  /\ last.pc = "done" /\ last.writes > 0
  /\ last.did = {"refund"} /\ last.result = "RefundFailed"

\* the check has queried the ledger and has read the clock
Queried(c) ==
  c.order # None /\ c.pc \notin {"idle", "query", "classify"}
  /\ c.result # "AlreadyProcessed"
\* the ledger holds a transaction that getLastIncomingTx accepts
SomeTransfer ==
  \E i \in 1..Len(txs) : IsRecipientBalanceChange(txs[i])

\* C11: a check that observes no transfer returns at once, whatever the
\* elapsed time, having written nothing and sent nothing; and as long as
\* the ledger holds no transfer, the order is PENDING after every check.
C11_NoTransferStaysPending ==
  /\ \A c \in Checks :
       (Queried(c) /\ c.transaction = None)
       => /\ c.pc = "done" /\ c.result = "PaymentNotDetected"
          /\ c.writes = 0 /\ c.did = {} /\ c.tx = None
  /\ \A a \in DOMAIN orders :
       ~SomeTransfer => orders[a].paymentStatus = "PENDING"

C11_Witness ==
  /\ last.pc = "done" /\ last.result = "PaymentNotDetected"
  /\ ~last.queryFailed /\ last.transaction = None
  /\ last.timeSinceCreation = 2 * ORDER_EXPIRATION_IN_MS
  /\ ~SomeTransfer
  /\ last.left = "PENDING" /\ orders[wallet].paymentStatus = "PENDING"

\* C12: in runs of non-overlapping checks, a check whose ledger query fails
\* sees no transaction, returns having written nothing and sent nothing,
\* and leaves the order PENDING, also when the ledger holds a transfer.
C12_FailedQueryKeepsPending ==
  \A c \in Checks :
    (Queried(c) /\ c.queryFailed)
    => /\ c.transaction = None
       /\ c.pc = "done"
       /\ c.writes = 0 /\ c.did = {} /\ c.tx = None
       /\ c.left = "PENDING"

C12_Witness ==
  /\ last.pc = "done" /\ last.queryFailed
  /\ SomeTransfer /\ balance > 0
  /\ sweeps = <<>>
  /\ last.left = "PENDING" /\ orders[wallet].paymentStatus = "PENDING"

\* C13: the answer of a check whose ledger query failed is not the answer
\* of a check whose query found no transfer (PaymentNotDetected).
C13_FailedQueryIsDistinct ==
  \A c \in Checks :
    (c.pc = "done" /\ c.queryFailed) => c.result # "PaymentNotDetected"

\* C14: the step of a check that answers AlreadyProcessed changes nothing:
\* no row of the table, no balance, no sendSui, and no invocation goes on
\* to query the ledger.
C14_AlreadyProcessedNoEffect ==
  [][last'.result = "AlreadyProcessed"
     => /\ orders' = orders
        /\ sweeps' = sweeps /\ balance' = balance
        /\ chk' = chk
        /\ last'.transaction = None /\ ~last'.queryFailed
        /\ last'.writes = 0 /\ last'.tx = None]_vars

C14_Witness ==
  /\ last.result = "AlreadyProcessed"
  /\ last.left = "CONFIRMED" /\ orders[wallet].paymentStatus = "CONFIRMED"
  /\ chk = EmptyBag /\ Len(sweeps) = 1

\* C15: in every state, the boost period of an order (boostStartedAt and
\* boostEndsAt) is set if and only if the order is CONFIRMED.
C15_PeriodIffConfirmed ==
  \A a \in DOMAIN orders :
    (orders[a].boostStartedAt # None /\ orders[a].boostEndsAt # None)
    <=> orders[a].paymentStatus = "CONFIRMED"

\* C16: once a check has returned from a successful refund, the order holds
\* the hash of the refund transaction and the address it was sent to.
C16_RefundRecorded ==
  (last.pc = "done" /\ last.result = "Refunded")
  => /\ orders[wallet].refundTransactionHash = The(last.tx).transactionHash
     /\ orders[wallet].refundAddress = Some(Sender(last))

LatestQualifying(transactions) ==
  LET q == {i \in 1..Len(transactions) :
              IsRecipientBalanceChange(transactions[i])}
  IN IF q = {} THEN None
     ELSE LET i == CHOOSE j \in q : \A k \in q : j <= k
          IN Some([ sender          |-> transactions[i].sender,
                    amountInSui     |-> transactions[i].amount,
                    transactionHash |-> transactions[i].digest ])

\* C18: on every ledger, a query that succeeds returns the most recent
\* SUI transaction with a positive amount, also behind newer transactions
\* of another coin, and null only when there is none.
C18_ReturnsLatestQualifying ==
  getLastIncomingTx(txs, TRUE) = LatestQualifying(txs)

\* C19: for every CONFIRMED order, boostEndsAt is boostStartedAt plus the
\* boost duration.
C19_EndIsStartPlusDuration ==
  \A a \in DOMAIN orders :
    orders[a].paymentStatus = "CONFIRMED"
    => The(orders[a].boostEndsAt)
         = The(orders[a].boostStartedAt)
             + orders[a].boostDurationHours * MS_PER_HOUR

\* C20: no step changes the status, the transaction hashes, the refund
\* address or the boost period of an order that is CONFIRMED or EXPIRED.
C20_TerminalFrame ==
  [][\A a \in DOMAIN orders :
       orders[a].paymentStatus \in {"CONFIRMED", "EXPIRED"}
       => /\ orders'[a].paymentStatus = orders[a].paymentStatus
          /\ orders'[a].paymentTransactionHash
               = orders[a].paymentTransactionHash
          /\ orders'[a].refundTransactionHash
               = orders[a].refundTransactionHash
          /\ orders'[a].refundAddress = orders[a].refundAddress
          /\ orders'[a].boostStartedAt = orders[a].boostStartedAt
          /\ orders'[a].boostEndsAt = orders[a].boostEndsAt]_vars

\* C21: in every state no two orders have the same paymentAddress, and no
\* step changes the paymentAddress of an order.
C21_UniqueAddress ==
  /\ [](\A a, b \in DOMAIN orders :
          orders[a].paymentAddress = orders[b].paymentAddress
          => orders[a].id = orders[b].id)
  /\ [][\A a \in DOMAIN orders, b \in DOMAIN orders' :
          orders'[b].id = orders[a].id
          => orders'[b].paymentAddress = orders[a].paymentAddress]_vars

C21_Witness ==
  /\ Cardinality(DOMAIN orders) = MaxOrders
  /\ wallet \in DOMAIN orders
  /\ orders[wallet].paymentStatus = "CONFIRMED"
  /\ \E a \in DOMAIN orders :
       /\ orders[a].id # orders[wallet].id
       /\ orders[a].paymentAddress # orders[wallet].paymentAddress

\* C22: in every state an order does not have both its payment transaction
\* hash and one of its refund fields (refund transaction hash, refund
\* address) set.
C22_AtMostOneResult ==
  \A a \in DOMAIN orders :
    ~ (/\ orders[a].paymentTransactionHash # None
       /\ (orders[a].refundTransactionHash # None
            \/ orders[a].refundAddress # None))

C22_Witness ==
  /\ wallet \in DOMAIN orders
  /\ orders[wallet].paymentTransactionHash # None
  /\ orders[wallet].refundTransactionHash = None
  /\ orders[wallet].refundAddress = None
  /\ Len(sweeps) = 2
  /\ \E i, j \in 1..2 : /\ sweeps[i].to = MASTER_WALLET /\ sweeps[i].success
                         /\ sweeps[j].to = Payers[1]

\* C23: the row of an order has the id, paymentAddress, paymentPrivateKey,
\* priceSui, boostDurationHours and createdAt that a check read when it
\* loaded the order, at every later step of that and of any other check.
C23_ImmutableFields ==
  \A c \in Checks :
    c.order # None
    => LET o == The(c.order)
           r == orders[o.paymentAddress]
       IN /\ r.id = o.id
          /\ r.paymentAddress = o.paymentAddress
          /\ r.paymentPrivateKey = o.paymentPrivateKey
          /\ r.priceSui = o.priceSui
          /\ r.boostDurationHours = o.boostDurationHours
          /\ r.createdAt = o.createdAt

C23_Witness ==
  /\ last.pc = "done" /\ last.result = "Refunded" /\ last.writes = 2
  /\ orders[wallet].paymentStatus = "EXPIRED"
  /\ orders[wallet].priceSui = Price(last)
  /\ orders[wallet].priceSui = PRICES[orders[wallet].boostDurationHours]

\* C24: the step of a check that finds no order under the session's
\* payment address answers NotFound and changes nothing: no row, no
\* balance, no sendSui, and no invocation goes on to query the ledger.
C24_NotFoundNoEffect ==
  [][/\ (wallet # "none" /\ wallet \notin DOMAIN orders)
        => /\ orders' = orders /\ sweeps' = sweeps
           /\ chk' = chk
           /\ last'.pc = "done" => last'.result = "NotFound"
     /\ last'.result = "NotFound"
        => /\ orders' = orders
           /\ sweeps' = sweeps /\ balance' = balance
           /\ chk' = chk
           /\ last'.transaction = None /\ ~last'.queryFailed
           /\ last'.writes = 0 /\ last'.tx = None]_vars

C24_Witness ==
  /\ last.result = "NotFound"
  /\ wallet # "none" /\ wallet \notin DOMAIN orders
  /\ SomeTransfer /\ balance > 0
  /\ sweeps = <<>> /\ chk = EmptyBag

\* C25: a check calls sendSui only after its write of PROCESSING and makes
\* its last write only after sendSui has returned; the stored status of an
\* order is not PENDING when a check is about to call sendSui for it, nor
\* at any time after a call.
C25_LockThenSweepThenSettle ==
  /\ \A c \in Checks :
       /\ c.pc \in {"refund", "forward"} => c.writes = 1 /\ c.tx = None
       /\ c.tx # None => c.writes >= 1
       /\ c.pc \in {"refunded", "forwarded"} => c.writes = 1 /\ c.tx # None
       /\ c.writes >= 2 => /\ c.pc = "done"
                           /\ c.tx # None \/ c.did = {"tooSmall"}
  /\ \A c \in BagToSet(chk) :
       c.pc \in {"refund", "forward", "refunded", "forwarded"}
       => orders[The(c.order).paymentAddress].paymentStatus # "PENDING"
  /\ sweeps # <<>> => orders[wallet].paymentStatus # "PENDING"

C25_Witness ==
  \E c \in BagToSet(chk) :
    /\ c.pc = "forwarded" /\ The(c.tx).success
    /\ c.writes = 1
    /\ orders[wallet].paymentStatus = "PROCESSING"
    /\ Len(sweeps) = 1

\* C26: in runs of non-overlapping checks sendSui is called at most once
\* for an order: after a call, failed or not, no check reaches the call.
C26_NoRetry ==
  /\ \A i, j \in 1..Len(sweeps) : i = j
  /\ \A c \in BagToSet(chk) :
       c.pc \in {"refund", "forward"} => sweeps = <<>>

C26_Witness ==
  /\ Len(sweeps) = 1 /\ ~sweeps[1].success
  /\ balance > 0
  /\ last.result = "AlreadyProcessed"
  /\ chk = EmptyBag

\* C27: the row a paymentStep creates is PENDING, has the address and the
\* key of a wallet no other row has, the price of its duration in PACKAGES
\* and none of the transaction hashes, refund address and boost period.
C27_NewOrder ==
  [][\A a \in DOMAIN orders' \ DOMAIN orders :
       LET r == orders'[a] IN
         /\ r.paymentStatus = "PENDING"
         /\ r.paymentAddress = a /\ wallet' = a
         /\ \A b \in DOMAIN orders :
              /\ orders[b].paymentAddress # r.paymentAddress
              /\ orders[b].paymentPrivateKey # r.paymentPrivateKey
              /\ orders[b].id # r.id
         /\ \E p \in PACKAGES : /\ p.duration = r.boostDurationHours
                                 /\ p.price = r.priceSui
         /\ r.paymentTransactionHash = None
         /\ r.refundTransactionHash = None /\ r.refundAddress = None
         /\ r.boostStartedAt = None /\ r.boostEndsAt = None
         /\ r.createdAt = now]_vars

C27_Witness ==
  /\ Cardinality(DOMAIN orders) = MaxOrders
  /\ wallet \in DOMAIN orders
  /\ orders[wallet].paymentStatus = "PENDING"
  /\ orders[wallet].createdAt > 0
  /\ orders[wallet].priceSui = 8 * (MIST_PER_SUI \div 10)
  /\ \E a \in DOMAIN orders : orders[a].priceSui = MIST_PER_SUI \div 10

\* the SUI sent to the payment address and the SUI moved out of it
RECURSIVE Deposited(_)
Deposited(transactions) ==
  IF transactions = <<>> THEN 0
  ELSE (IF Head(transactions).coinType = SUI_COIN
          THEN Head(transactions).amount ELSE 0)
       + Deposited(Tail(transactions))
RECURSIVE Swept(_)
Swept(log) ==
  IF log = <<>> THEN 0 ELSE Head(log).amount + Swept(Tail(log))

\* C28: the balance of the payment address goes down only by a sendSui;
\* every sendSui of a check goes to the master wallet or to the sender of
\* the transfer that check observed, and to the master wallet only when the
\* check observed amount >= price at elapsed <= window.
C28_SweepDestinations ==
  /\ balance + Swept(sweeps) = Deposited(txs)
  /\ \A i \in 1..Len(sweeps) :
       \/ sweeps[i].to = MASTER_WALLET
       \/ \E k \in 1..Len(txs) : txs[k].sender = sweeps[i].to
  /\ \A c \in Checks :
       /\ c.tx # None => The(c.tx).to \in {MASTER_WALLET, Sender(c)}
       /\ (c.pc = "forward" \/ (c.tx # None /\ The(c.tx).to = MASTER_WALLET))
          => /\ Amount(c) >= Price(c)
             /\ c.timeSinceCreation <= ORDER_EXPIRATION_IN_MS

C28_Witness ==
  /\ last.pc = "done" /\ last.result = "Confirmed"
  /\ Len(sweeps) = 2
  /\ sweeps[1].to = Sender(last) /\ ~sweeps[1].success
  /\ sweeps[2].to = MASTER_WALLET /\ sweeps[2].amount = Deposited(txs)
  /\ balance = 0

\* C29: in runs of non-overlapping checks the transaction a check acts on
\* is the most recent one of the ledger at its query, alone: its sender
\* and its amount, not the balance.  A check that observes less than the
\* price never forwards and sends what it sends to that sender, whatever
\* earlier transfers added to the balance; one that observes the price in
\* time never refunds.
C29_LatestTransferDecides ==
  /\ [](\A c \in Checks :
          c.transaction # None
          => /\ \E i \in 1..Len(txs) :
                  /\ txs[i].digest = The(c.transaction).transactionHash
                  /\ txs[i].sender = Sender(c)
                  /\ txs[i].amount = Amount(c)
                  /\ IsRecipientBalanceChange(txs[i])
             /\ (Classified(c) /\ Amount(c) < Price(c))
                => /\ c.pc \notin {"forward", "forwarded"}
                   /\ "forward" \notin c.did
                   /\ c.tx # None => The(c.tx).to = Sender(c)
             /\ (/\ Classified(c) /\ Amount(c) >= Price(c)
                 /\ c.timeSinceCreation <= ORDER_EXPIRATION_IN_MS)
                => /\ c.pc \in {"forward", "forwarded", "done"}
                   /\ c.did \subseteq {"forward"})
  /\ [][\A c \in BagToSet(chk') \ BagToSet(chk) :
          (c.pc = "classify" /\ c.transaction # None)
          => The(c.transaction).transactionHash = txs[1].digest]_vars

C29_Witness ==
  /\ last.pc = "done" /\ last.result = "Refunded"
  /\ last.timeSinceCreation <= ORDER_EXPIRATION_IN_MS
  /\ Len(txs) = 2
  /\ txs[1].coinType = SUI_COIN /\ txs[2].coinType = SUI_COIN
  /\ txs[1].sender # txs[2].sender
  /\ The(last.transaction).transactionHash = txs[1].digest
  /\ txs[1].amount < Price(last)
  /\ txs[1].amount + txs[2].amount >= Price(last)
  /\ Len(sweeps) = 1 /\ sweeps[1].success
  /\ sweeps[1].to = txs[1].sender
  /\ sweeps[1].amount = txs[1].amount + txs[2].amount

\* C30: in runs of non-overlapping checks, no step changes the row of an
\* order that is PROCESSING while no check is running, no sendSui is
\* called, and every check that starts answers AlreadyProcessed at once.
C30_ProcessingAbsorbing ==
  [][(/\ chk = EmptyBag
      /\ wallet \in DOMAIN orders
      /\ orders[wallet].paymentStatus = "PROCESSING")
     => /\ orders' = orders
        /\ sweeps' = sweeps
        /\ chk' = EmptyBag
        /\ last'.pc = "done" => /\ last'.result = "AlreadyProcessed"
                                /\ last'.writes = 0 /\ last'.tx = None]_vars

C30_Witness ==
  /\ chk = EmptyBag
  /\ wallet \in DOMAIN orders
  /\ orders[wallet].paymentStatus = "PROCESSING"
  /\ last.result = "AlreadyProcessed" /\ last.left = "PROCESSING"
  /\ balance > 0

\* C31: in the order editor a field of an order is written only by the
\* message handler, for an existing order whose userId is the id of the
\* user who sent the message; a user has at most one pending edit at any
\* time; after a successful update, a denied or missing order, an error or
\* a cancel the user has no pending edit, and an invalid value leaves the
\* pending edits as they were.
C31_FieldEdit ==
  /\ [](\A u \in Users : Cardinality(MapGet(pendingEdits, u)) <= 1)
  /\ [][ /\ \A id \in DOMAIN boostOrder :
              ( /\ boostOrder[id] # None
                /\ boostOrder'[id] # None
                /\ boostOrder'[id] # boostOrder[id] )
                => /\ reply'.handler = "handleFieldEditMessage"
                   /\ reply'.outcome = "updated"
                   /\ reply'.orderId = id
                   /\ The(boostOrder[id]).userId = reply'.userId
                   /\ The(boostOrder'[id]).userId = reply'.userId
         /\ reply'.outcome = "updated"
              => /\ getOrderById(boostOrder, reply'.orderId) # None
                 /\ The(boostOrder[reply'.orderId]).userId = reply'.userId
                 /\ The(boostOrder'[reply'.orderId])[reply'.field]
                      = reply'.value
         /\ reply'.outcome \in {"updated", "denied", "error", "cancelled"}
              => MapGet(pendingEdits', reply'.userId) = None
         /\ reply'.outcome = "invalid"
              => /\ pendingEdits' = pendingEdits
                 /\ MapGet(pendingEdits', reply'.userId) # None
       ]_vars

\* a user's message has set the website of the user's own order, and the
\* user's pending edit is gone
C31_Witness ==
  /\ reply.handler = "handleFieldEditMessage"
  /\ reply.outcome = "updated"
  /\ reply.field = "website"
  /\ The(boostOrder[reply.orderId]).userId = reply.userId
  /\ The(boostOrder[reply.orderId]).website = Some("https://mytoken.com")
  /\ MapGet(pendingEdits, reply.userId) = None

\* the keys of the text handler's branches
TextKeys == SessionKeys \ {"waitingForMedia"}

\* C32: at most one flag of session.pendingEdits is set at any time; after
\* an edit button the flag of that button is the only one set; and a step
\* of the text or the media handler sets no flag that was not set before.
C32_AtMostOneFlag ==
  /\ [](Cardinality(session.pendingEdits) <= 1)
  /\ [](reply.handler = "createWaitingAction"
          => session.pendingEdits = {reply.field})
  /\ [][reply'.handler \in {"text", "media"}
          => /\ session'.pendingEdits \subseteq session.pendingEdits
             /\ session'.selectedGroupId = session.selectedGroupId]_vars

\* the X button was pressed while the chat waited for another setting: a
\* Telegram link was saved before, and the X flag is the only one set
C32_Witness ==
  /\ reply.handler = "createWaitingAction"
  /\ reply.field = "waitingForX"
  /\ session.pendingEdits = {"waitingForX"}
  /\ "g1" \in DOMAIN botGroup
  /\ botGroup["g1"].telegram # None

\* C33: a step of the text handler taken while a text-field flag is set
\* leaves the session as it was, whether the text is rejected or saved, and
\* answers for the field of that flag; the text handler changes the flags
\* only when no text-field flag is set, and then no flag is left, the media
\* flag included.
C33_TextKeepsFlag ==
  [][reply'.handler = "text"
       => /\ (session.pendingEdits \cap TextKeys # {}
                => /\ session' = session
                   /\ reply'.outcome \in {"rejected", "saved", "failed"}
                   /\ reply'.field \in session.pendingEdits)
          /\ (session'.pendingEdits # session.pendingEdits
                => session.pendingEdits \cap TextKeys = {})
          /\ (session.pendingEdits \cap TextKeys = {}
                => /\ session'.pendingEdits = {}
                   /\ reply'.outcome = "cleared")]_vars

\* a website was saved by a text message and the chat still waits for a
\* website
C33_Witness ==
  /\ reply.handler = "text"
  /\ reply.outcome = "saved"
  /\ reply.field = "waitingForWebsite"
  /\ session.pendingEdits = {"waitingForWebsite"}
  /\ "g1" \in DOMAIN botGroup
  /\ botGroup["g1"].website = Some("https://t.me/neonet_agent")

====
